---- MODULE Spec2Model ----
(***************************************************************************)
(* Model of internal/grammars/thrift/runtime/thrift_runtime.c: the C       *)
(* adapter between a host caller and the tree-sitter engine for the        *)
(* Thrift grammar.                                                         *)
(*                                                                         *)
(* The adapter keeps no state of its own.  The state of the model is the   *)
(* engine's state (live trees, live range arrays) and the record of the    *)
(* last call: its arguments, the memory its pointer arguments pointed at   *)
(* before and after, its return value, the sequence of engine calls and    *)
(* stores it made, and what the engine's diff answered.  Every exported    *)
(* function is one action.  The engine is a black box: where its answer    *)
(* is not fixed by the arguments it is chosen nondeterministically.        *)
(* Parsers are not tracked: the adapter hands a parser handle to the       *)
(* engine unread.                                                          *)
(*                                                                         *)
(* Pointers are sequences: <<>> is the null pointer, <<v>> points at v.    *)
(* Handles are integers, 0 being the null handle.  A tree handle a caller  *)
(* passes is null or live: the use of a deleted handle is outside the      *)
(* model.  A non-null output buffer has BufLen entries and the capacity    *)
(* the caller states is at most BufLen.  A load or store through a null    *)
(* pointer is undefined in C: the model ends the process there or, for a   *)
(* target where address 0 is mapped, lets the call go on with memory that  *)
(* is not the caller's buffer read or overwritten (wild).                  *)
(***************************************************************************)
EXTENDS Integers, Sequences, FiniteSets

VARIABLES
  trees,     \* live tree handle -> [edit]: the last edit the engine applied
  heap,      \* addresses of the engine's live (not yet freed) range arrays
  last,      \* the record of the last call
  crashed    \* the process was ended by a null dereference

vars == <<trees, heap, last, crashed>>

----------------------------------------------------------------------------
(* Bounds of the model. *)

MaxTrees == 1     \* tree handles the engine can hand out
MaxAddr == 1      \* range arrays the engine can have allocated at once
MaxRanges == 3    \* longest range array the engine's diff returns
MaxKids == 3      \* most children of a node
BufLen == 2       \* slots of the caller's output buffers

----------------------------------------------------------------------------
(* Pointers and handles. *)

NULL == <<>>

Ptr(v) == <<v>>

Deref(p) == p[1]

\* A parser handle a caller passes: null, or the parser it created.
ParserArgs == 0..1

\* The sources a caller parses: nothing, and a text with its length.
Sources == {[src |-> NULL, len |-> 0], [src |-> Ptr("struct S {}"), len |-> 11]}

TreeArgs == {0} \cup DOMAIN trees

----------------------------------------------------------------------------
(* The call record. *)

NoCall ==
  [op |-> "none", h1 |-> 0, h2 |-> 0, edit |-> NULL, node |-> NULL,
   pre |-> NULL, cap |-> 0, post |-> NULL, ret |-> NULL, log |-> <<>>,
   status |-> "returned", wild |-> FALSE, eng |-> NULL, probed |-> NULL]

Event(fn, args) == [fn |-> fn, args |-> args]

\* The events of log made by the engine function fn.
RECURSIVE Calls(_, _)
Calls(log, fn) ==
  IF log = <<>> THEN <<>>
  ELSE (IF Head(log).fn = fn THEN <<Head(log)>> ELSE <<>>) \o Calls(Tail(log), fn)

----------------------------------------------------------------------------
(* Types of the adapter. *)

\* TwInputEdit, the caller's flat edit descriptor.
TwInputEdit(sb, oeb, neb, sr, sc, oer, oec, ner, nec) ==
  [start_byte |-> sb, old_end_byte |-> oeb, new_end_byte |-> neb,
   start_row |-> sr, start_col |-> sc,
   old_end_row |-> oer, old_end_col |-> oec,
   new_end_row |-> ner, new_end_col |-> nec]

\* The edits the callers of the model pass: an insertion whose nine fields
\* all differ, and a deletion on one line.
Edits ==
  { TwInputEdit(1, 2, 3, 4, 5, 6, 7, 8, 9),
    TwInputEdit(4, 6, 4, 0, 4, 0, 6, 0, 4) }

\* TSInputEdit, the engine's edit record.
TSInputEdit(sb, oeb, neb, sp, oep, nep) ==
  [start_byte |-> sb, old_end_byte |-> oeb, new_end_byte |-> neb,
   start_point |-> sp, old_end_point |-> oep, new_end_point |-> nep]

TSPoint(row, column) == [row |-> row, column |-> column]

\* TSRange, one range of the engine's diff.
TSRange(sp, ep, sb, eb) ==
  [start_point |-> sp, end_point |-> ep, start_byte |-> sb, end_byte |-> eb]

\* TwChangedRange, one range as the caller gets it.
TwChangedRange(sb, eb, sr, sc, er, ec) ==
  [start_byte |-> sb, end_byte |-> eb, start_row |-> sr, start_col |-> sc,
   end_row |-> er, end_col |-> ec]

\* TSNode, a node value, as the facts the engine reports of it.  kids are
\* its direct children, left to right.
TSNode(symbol, sb, eb, named, error, missing, extra, has_error, kids) ==
  [symbol |-> symbol, start_byte |-> sb, end_byte |-> eb,
   is_named |-> named, is_error |-> error, is_missing |-> missing,
   is_extra |-> extra, has_error |-> has_error, kids |-> kids]

\* TwNodeInfo, the consolidated snapshot.
TwNodeInfo(symbol, sb, eb, child_count, flags) ==
  [symbol |-> symbol, start_byte |-> sb, end_byte |-> eb,
   child_count |-> child_count, flags |-> flags]

\* enum TW_NODE_FLAG_*
TW_NODE_FLAG_NAMED == 1
TW_NODE_FLAG_ERROR == 2
TW_NODE_FLAG_MISSING == 4
TW_NODE_FLAG_EXTRA == 8
TW_NODE_FLAG_HAS_ERROR == 16

----------------------------------------------------------------------------
(* The engine, as far as the adapter sees it. *)

\* What the engine does when handed a null pointer it dereferences: it is
\* the engine's business, so either outcome is possible.
EngineOnNull == {"crash", "null"}

\* The handle the engine's allocator hands out next, 0 when it has none.
FreshHandle(used, max) ==
  IF \E h \in 1..max : h \notin used
    THEN CHOOSE h \in 1..max : h \notin used /\ \A g \in 1..h-1 : g \in used
    ELSE 0

\* Range i (from 0) of a diff: ascending, with six values that all differ.
EngineRange(i) ==
  TSRange(TSPoint(10*i + 3, 10*i + 4), TSPoint(10*i + 5, 10*i + 6),
          10*i + 1, 10*i + 2)

EngineRanges(n) == [i \in 1..n |-> EngineRange(i - 1)]

\* ts_tree_get_changed_ranges: NULL, or a fresh array of 0..MaxRanges ranges
\* and its length in *count.
DiffResults ==
  {[addr |-> 0, count |-> 0, ranges |-> <<>>]} \cup
  {[addr |-> FreshHandle(heap, MaxAddr), count |-> n, ranges |-> EngineRanges(n)] :
     n \in {m \in 0..MaxRanges : FreshHandle(heap, MaxAddr) # 0}}

\* The caller's range buffer before a call: BufLen slots of stale ranges.
StaleRange(i) == TwChangedRange(90 + i, 90 + i, 90 + i, 90 + i, 90 + i, 90 + i)

StaleRanges == [i \in 1..BufLen |-> StaleRange(i)]

\* Child i (from 0) of a node: a leaf whose symbol and bytes tell its place,
\* named or anonymous.
Leaf(i, named) ==
  TSNode(20 + i, 2*i, 2*i + 1, named, FALSE, FALSE, FALSE, FALSE, <<>>)

\* The first n children of a rule whose children alternate between named
\* and anonymous, starting with a named one iff first.
Kids(first, n) == [k \in 1..n |-> Leaf(k - 1, (k % 2 = 1) = first)]

\* The nodes the callers of the model inspect: every combination of the
\* five facts, for a leaf and for a node of MaxKids children.
InspectNodes ==
  { TSNode(7, 10, 15, b[1], b[2], b[3], b[4], b[5], Kids(TRUE, n)) :
      b \in [1..5 -> BOOLEAN], n \in {0, MaxKids} }

\* The nodes the callers of the model walk: 0..MaxKids children, the first
\* named or anonymous.
WalkNodes ==
  { TSNode(7, 10, 15, TRUE, FALSE, FALSE, FALSE, FALSE, Kids(first, n)) :
      first \in BOOLEAN, n \in 0..MaxKids }

\* The root node of a live tree.
RootNode == TSNode(7, 10, 15, TRUE, FALSE, FALSE, FALSE, FALSE, Kids(TRUE, MaxKids))

\* The node the engine answers with when it has none: all zero.
NullNode == TSNode(0, 0, 0, FALSE, FALSE, FALSE, FALSE, FALSE, <<>>)

\* The engine's accessors of a node.
ts_node_symbol(n) == n.symbol
ts_node_start_byte(n) == n.start_byte
ts_node_end_byte(n) == n.end_byte
ts_node_child_count(n) == Len(n.kids)
ts_node_child(n, i) == IF i < Len(n.kids) THEN n.kids[i + 1] ELSE NullNode
ts_node_is_named(n) == n.is_named
ts_node_is_error(n) == n.is_error
ts_node_is_missing(n) == n.is_missing
ts_node_is_extra(n) == n.is_extra
ts_node_has_error(n) == n.has_error

\* ts_node_type: the address of the interned name of the node's symbol.
ts_node_type(n) == 1000 + n.symbol

\* The caller's memory before a call: stale values that no call writes.
StaleNode(i) == TSNode(90 + i, 90 + i, 90 + i, FALSE, FALSE, FALSE, FALSE, FALSE, <<>>)

StaleNodes == [i \in 1..BufLen |-> StaleNode(i)]

StaleInfo == TwNodeInfo(99, 99, 99, 99, 99)

----------------------------------------------------------------------------
(* Parser lifecycle. *)

\* uintptr_t tw_parser_new(void)
tw_parser_new ==
  /\ ~crashed
  /\ \E p \in ParserArgs :
       last' = [NoCall EXCEPT !.op = "tw_parser_new", !.ret = Ptr(p),
                  !.log = <<Event("ts_parser_new", <<>>)>>]
  /\ UNCHANGED <<trees, heap, crashed>>

\* void tw_parser_delete(uintptr_t parser)
\* The engine's delete of a null handle does nothing.
tw_parser_delete ==
  /\ ~crashed
  /\ \E parser \in ParserArgs :
       last' = [NoCall EXCEPT !.op = "tw_parser_delete", !.h1 = parser,
                  !.log = <<Event("ts_parser_delete", <<parser>>)>>]
  /\ UNCHANGED <<trees, heap, crashed>>

\* uint32_t tw_parser_set_language(uintptr_t parser)
tw_parser_set_language ==
  /\ ~crashed
  /\ \E parser \in ParserArgs :
     \E ok \in IF parser = 0 THEN {FALSE} ELSE BOOLEAN :
     \E onnull \in IF parser = 0 THEN EngineOnNull ELSE {"null"} :
       /\ crashed' = (onnull = "crash")
       /\ last' = [NoCall EXCEPT !.op = "tw_parser_set_language", !.h1 = parser,
                     !.log = <<Event("ts_parser_set_language", <<parser, "thrift">>)>>,
                     !.status = IF onnull = "crash" THEN "crashed" ELSE "returned",
                     !.ret = IF onnull = "crash" THEN NULL
                             ELSE Ptr(IF ok THEN 1 ELSE 0)]
  /\ UNCHANGED <<trees, heap>>

\* uintptr_t tw_parser_parse_string(parser, old_tree, src, len)
tw_parser_parse_string ==
  /\ ~crashed
  /\ \E parser \in ParserArgs, old_tree \in TreeArgs, s \in Sources :
     \E t \in IF parser = 0 THEN {0} ELSE {0, FreshHandle(DOMAIN trees, MaxTrees)} :
     \E onnull \in IF parser = 0 THEN EngineOnNull ELSE {"null"} :
       /\ crashed' = (onnull = "crash")
       /\ trees' = IF t = 0 THEN trees
                   ELSE [h \in DOMAIN trees \cup {t} |->
                           IF h = t THEN [edit |-> NULL] ELSE trees[h]]
       /\ last' = [NoCall EXCEPT !.op = "tw_parser_parse_string", !.h1 = parser,
                     !.h2 = old_tree, !.pre = s.src, !.cap = s.len,
                     !.log = <<Event("ts_parser_parse_string",
                                     <<parser, old_tree, s.src, s.len>>)>>,
                     !.status = IF onnull = "crash" THEN "crashed" ELSE "returned",
                     !.ret = IF onnull = "crash" THEN NULL ELSE Ptr(t)]
  /\ UNCHANGED heap

----------------------------------------------------------------------------
(* Tree lifecycle and editing. *)

\* void tw_tree_delete(uintptr_t tree)
\* The engine's delete of a null handle does nothing.
tw_tree_delete ==
  /\ ~crashed
  /\ \E tree \in TreeArgs :
       /\ trees' = [h \in DOMAIN trees \ {tree} |-> trees[h]]
       /\ last' = [NoCall EXCEPT !.op = "tw_tree_delete", !.h1 = tree,
                     !.log = <<Event("ts_tree_delete", <<tree>>)>>]
  /\ UNCHANGED <<heap, crashed>>

\* MakeInputEdit with the old and the new end point exchanged.
MakeInputEditSwapped(edit) ==
  TSInputEdit(edit.start_byte, edit.old_end_byte, edit.new_end_byte,
              TSPoint(edit.start_row, edit.start_col),
              TSPoint(edit.new_end_row, edit.new_end_col),
              TSPoint(edit.old_end_row, edit.old_end_col))

\* The initializer of input_edit in tw_tree_edit.
MakeInputEdit(edit) ==
  TSInputEdit(edit.start_byte, edit.old_end_byte, edit.new_end_byte,
              TSPoint(edit.start_row, edit.start_col),
              TSPoint(edit.old_end_row, edit.old_end_col),
              TSPoint(edit.new_end_row, edit.new_end_col))

\* The guard of tw_tree_edit.
EditGuard(tree, edit) == tree = 0 \/ edit = NULL

\* void tw_tree_edit(uintptr_t tree, const TwInputEdit *edit)
tw_tree_edit ==
  /\ ~crashed
  /\ \E tree \in TreeArgs, edit \in {NULL} \cup {Ptr(e) : e \in Edits} :
       IF EditGuard(tree, edit)
         THEN /\ trees' = trees
              /\ last' = [NoCall EXCEPT !.op = "tw_tree_edit", !.h1 = tree,
                            !.edit = edit]
         ELSE LET input_edit == MakeInputEdit(Deref(edit)) IN
              /\ trees' = [trees EXCEPT ![tree] = [edit |-> Ptr(input_edit)]]
              /\ last' = [NoCall EXCEPT !.op = "tw_tree_edit", !.h1 = tree,
                            !.edit = edit,
                            !.log = <<Event("ts_tree_edit", <<tree, input_edit>>)>>]
  /\ UNCHANGED <<heap, crashed>>

----------------------------------------------------------------------------
(* Changed ranges. *)

\* What a store through a null pointer does: the process is ended, or (where
\* address 0 is mapped, as in a linear memory) memory that is not the
\* caller's buffer is overwritten and the call goes on.
NullStore == {"crash", "wild"}

\* RangesGuard testing old_tree alone.
RangesGuardOldOnly(old_tree, new_tree) == old_tree = 0

\* The guard of tw_tree_changed_ranges.
RangesGuard(old_tree, new_tree) == old_tree = 0 \/ new_tree = 0

\* RangeWriteCount without the clamp.
RangeWriteCountAll(count, out_cap) == count

\* write_count of tw_tree_changed_ranges: count clamped to out_cap.
RangeWriteCount(count, out_cap) == IF count > out_cap THEN out_cap ELSE count

\* The six assignments of the copy loop's body.
CopyRange(r) ==
  TwChangedRange(r.start_byte, r.end_byte,
                 r.start_point.row, r.start_point.column,
                 r.end_point.row, r.end_point.column)

\* The copy loop from index i on.  f is the frame of the call: mem, the
\* memory out_ranges points at (NULL for a null out_ranges), log and heap.
RECURSIVE CopyRanges(_, _, _, _)
CopyRanges(f, ranges, i, write_count) ==
  IF i < write_count
    THEN CopyRanges(
           [f EXCEPT !.mem = IF @ = NULL THEN NULL
                             ELSE Ptr([Deref(@) EXCEPT ![i + 1] = CopyRange(ranges[i + 1])]),
                     !.wild = @ \/ f.mem = NULL,
                     !.log = Append(@, Event("store", <<i>>))],
           ranges, i + 1, write_count)
    ELSE f

\* ts_tree_get_changed_ranges(old_tree, new_tree, &count) answering res.
GetChangedRanges(f, old_tree, new_tree, res) ==
  [f EXCEPT !.heap = IF res.addr = 0 THEN @ ELSE @ \cup {res.addr},
            !.eng = Ptr(res),
            !.log = Append(@, Event("ts_tree_get_changed_ranges",
                                    <<old_tree, new_tree, res.addr>>))]

\* FreeRanges leaking the array.
FreeRangesLeak(f, addr) == f

\* free(ranges)
FreeRanges(f, addr) ==
  [f EXCEPT !.heap = @ \ {addr}, !.log = Append(@, Event("free", <<addr>>))]

\* RangesReturn returning the number of ranges written.
RangesReturnWritten(count, write_count) == write_count

\* The value tw_tree_changed_ranges returns after the copy.
RangesReturn(count, write_count) == count

\* The body of tw_tree_changed_ranges: the frame it ends with, and in ret
\* its return value (NULL when the call never returns).
ChangedRangesBody(old_tree, new_tree, out_ranges, out_cap, res, nullstore) ==
  LET f0 == [mem |-> out_ranges, log |-> <<>>, heap |-> heap, wild |-> FALSE,
             eng |-> NULL, ret |-> NULL]
  IN
  IF RangesGuard(old_tree, new_tree) THEN [f0 EXCEPT !.ret = Ptr(0)]
  ELSE
    LET f1 == GetChangedRanges(f0, old_tree, new_tree, res) IN
    IF res.addr = 0 THEN [f1 EXCEPT !.ret = Ptr(0)]
    ELSE
      LET write_count == RangeWriteCount(res.count, out_cap) IN
      IF write_count > 0 /\ out_ranges = NULL /\ nullstore = "crash"
        THEN [f1 EXCEPT !.log = Append(@, Event("store", <<0>>))]
        ELSE
          LET f2 == CopyRanges(f1, res.ranges, 0, write_count)
              f3 == FreeRanges(f2, res.addr)
          IN [f3 EXCEPT !.ret = Ptr(RangesReturn(res.count, write_count))]

\* uint32_t tw_tree_changed_ranges(old_tree, new_tree, out_ranges, out_cap)
tw_tree_changed_ranges ==
  /\ ~crashed
  /\ \E old_tree \in TreeArgs, new_tree \in TreeArgs,
        out_ranges \in {NULL, Ptr(StaleRanges)}, out_cap \in 0..BufLen :
     \E res \in IF old_tree = 0 \/ new_tree = 0 THEN {CHOOSE r \in DiffResults : TRUE}
                ELSE DiffResults :
     \E nullstore \in IF out_ranges = NULL /\ out_cap > 0 /\ res.count > 0
                      THEN NullStore ELSE {"crash"} :
     \E f \in {ChangedRangesBody(old_tree, new_tree, out_ranges, out_cap,
                                 res, nullstore)} :
       /\ heap' = f.heap
       /\ crashed' = (f.ret = NULL)
       /\ last' = [NoCall EXCEPT !.op = "tw_tree_changed_ranges",
                     !.h1 = old_tree, !.h2 = new_tree, !.pre = out_ranges,
                     !.cap = out_cap, !.post = f.mem, !.ret = f.ret,
                     !.log = f.log, !.wild = f.wild, !.eng = f.eng,
                     !.status = IF f.ret = NULL THEN "crashed" ELSE "returned"]
  /\ UNCHANGED trees

----------------------------------------------------------------------------
(* Nodes. *)

\* What a load through a null pointer does: the process is ended, or (where
\* address 0 is mapped) whatever lies there is read.
NullLoad == {"crash", "garbage"}

\* void tw_tree_root_node(uintptr_t tree, TSNode *out_node)
tw_tree_root_node ==
  /\ ~crashed
  /\ \E tree \in TreeArgs, out_node \in {NULL, Ptr(StaleNode(0))} :
     \E onnull \in IF tree = 0 THEN EngineOnNull ELSE {"null"} :
     \E nullstore \in IF out_node = NULL /\ onnull = "null" THEN NullStore ELSE {"wild"} :
     \E root \in {IF tree = 0 THEN NullNode ELSE RootNode} :
       /\ crashed' = (onnull = "crash" \/ nullstore = "crash")
       /\ last' = [NoCall EXCEPT !.op = "tw_tree_root_node", !.h1 = tree,
                     !.pre = out_node,
                     !.post = IF out_node = NULL \/ onnull = "crash" THEN out_node
                              ELSE Ptr(root),
                     !.log = <<Event("ts_tree_root_node", <<tree>>)>> \o
                             (IF onnull = "crash" THEN <<>>
                              ELSE <<Event("store", <<0>>)>>),
                     !.wild = (out_node = NULL /\ onnull = "null" /\ nullstore = "wild"),
                     !.status = IF crashed' THEN "crashed" ELSE "returned"]
  /\ UNCHANGED <<trees, heap>>

\* flags |= bit, for a bit of TW_NODE_FLAG_*.
BitOr(flags, bit) == IF (flags \div bit) % 2 = 1 THEN flags ELSE flags + bit

\* tw_node_flags with the bits of missing and extra exchanged.
tw_node_flags_exchanged(node) ==
  LET f1 == IF ts_node_is_named(node) THEN BitOr(0, TW_NODE_FLAG_NAMED) ELSE 0
      f2 == IF ts_node_is_error(node) THEN BitOr(f1, TW_NODE_FLAG_ERROR) ELSE f1
      f3 == IF ts_node_is_missing(node) THEN BitOr(f2, TW_NODE_FLAG_EXTRA) ELSE f2
      f4 == IF ts_node_is_extra(node) THEN BitOr(f3, TW_NODE_FLAG_MISSING) ELSE f3
      f5 == IF ts_node_has_error(node) THEN BitOr(f4, TW_NODE_FLAG_HAS_ERROR) ELSE f4
  IN f5

\* static uint32_t tw_node_flags(TSNode node)
tw_node_flags(node) ==
  LET f1 == IF ts_node_is_named(node) THEN BitOr(0, TW_NODE_FLAG_NAMED) ELSE 0
      f2 == IF ts_node_is_error(node) THEN BitOr(f1, TW_NODE_FLAG_ERROR) ELSE f1
      f3 == IF ts_node_is_missing(node) THEN BitOr(f2, TW_NODE_FLAG_MISSING) ELSE f2
      f4 == IF ts_node_is_extra(node) THEN BitOr(f3, TW_NODE_FLAG_EXTRA) ELSE f3
      f5 == IF ts_node_has_error(node) THEN BitOr(f4, TW_NODE_FLAG_HAS_ERROR) ELSE f4
  IN f5

\* InspectGuard testing node alone.
InspectGuardNodeOnly(node, out_info) == node = NULL

\* The guard of tw_node_inspect.
InspectGuard(node, out_info) == node = NULL \/ out_info = NULL

\* The five assignments of tw_node_inspect.
InspectFill(n) ==
  TwNodeInfo(ts_node_symbol(n), ts_node_start_byte(n), ts_node_end_byte(n),
             ts_node_child_count(n), tw_node_flags(n))

\* The engine calls one tw_node_inspect makes, in order.
InspectCalls ==
  <<Event("ts_node_symbol", <<>>), Event("ts_node_start_byte", <<>>),
    Event("ts_node_end_byte", <<>>), Event("ts_node_child_count", <<>>),
    Event("ts_node_is_named", <<>>), Event("ts_node_is_error", <<>>),
    Event("ts_node_is_missing", <<>>), Event("ts_node_is_extra", <<>>),
    Event("ts_node_has_error", <<>>)>>

\* void tw_node_inspect(const TSNode *node, TwNodeInfo *out_info)
tw_node_inspect ==
  /\ ~crashed
  /\ \E node \in {NULL} \cup {Ptr(n) : n \in InspectNodes},
        out_info \in {NULL, Ptr(StaleInfo)} :
       last' = IF InspectGuard(node, out_info)
                 THEN [NoCall EXCEPT !.op = "tw_node_inspect", !.node = node,
                         !.pre = out_info, !.post = out_info]
                 ELSE [NoCall EXCEPT !.op = "tw_node_inspect", !.node = node,
                         !.pre = out_info, !.post = Ptr(InspectFill(Deref(node))),
                         !.log = InspectCalls]
  /\ UNCHANGED <<trees, heap, crashed>>

\* write_count of tw_node_children: count clamped to out_cap.
ChildWriteCount(count, out_cap) == IF count > out_cap THEN out_cap ELSE count

\* The count-only test of tw_node_children.
CountOnly(out_nodes, out_cap) == out_nodes = NULL \/ out_cap = 0

\* CopyChildren stopping one child early.
RECURSIVE CopyChildrenShort(_, _, _, _)
CopyChildrenShort(f, n, i, write_count) ==
  IF i + 1 < write_count
    THEN CopyChildrenShort(
           [f EXCEPT !.mem = Ptr([Deref(@) EXCEPT ![i + 1] = ts_node_child(n, i)]),
                     !.log = @ \o <<Event("ts_node_child", <<i>>),
                                    Event("store", <<i>>)>>],
           n, i + 1, write_count)
    ELSE f

\* CopyChildren skipping the anonymous children.
RECURSIVE CopyChildrenNamed(_, _, _, _)
CopyChildrenNamed(f, n, i, write_count) ==
  IF i < write_count
    THEN CopyChildrenNamed(
           IF ts_node_is_named(ts_node_child(n, i))
             THEN [f EXCEPT !.mem = Ptr([Deref(@) EXCEPT ![i + 1] = ts_node_child(n, i)]),
                            !.log = @ \o <<Event("ts_node_child", <<i>>),
                                           Event("store", <<i>>)>>]
             ELSE f,
           n, i + 1, write_count)
    ELSE f

\* The copy loop of tw_node_children from index i on; f is the frame of the
\* call: mem, the memory out_nodes points at, and log.
RECURSIVE CopyChildren(_, _, _, _)
CopyChildren(f, n, i, write_count) ==
  IF i < write_count
    THEN CopyChildren(
           [f EXCEPT !.mem = Ptr([Deref(@) EXCEPT ![i + 1] = ts_node_child(n, i)]),
                     !.log = @ \o <<Event("ts_node_child", <<i>>),
                                    Event("store", <<i>>)>>],
           n, i + 1, write_count)
    ELSE f

\* ChildrenReturn returning the number of children written.
ChildrenReturnWritten(count, write_count) == write_count

\* The value tw_node_children returns after the copy.
ChildrenReturn(count, write_count) == count

\* The body of tw_node_children.
ChildrenBody(node, out_nodes, out_cap) ==
  LET f0 == [mem |-> out_nodes, log |-> <<>>, ret |-> NULL] IN
  IF node = NULL THEN [f0 EXCEPT !.ret = Ptr(0)]
  ELSE
    LET count == ts_node_child_count(Deref(node))
        f1 == [f0 EXCEPT !.log = <<Event("ts_node_child_count", <<>>)>>]
    IN
    IF CountOnly(out_nodes, out_cap) THEN [f1 EXCEPT !.ret = Ptr(count)]
    ELSE
      LET write_count == ChildWriteCount(count, out_cap)
          f2 == CopyChildren(f1, Deref(node), 0, write_count)
      IN [f2 EXCEPT !.ret = Ptr(ChildrenReturn(count, write_count))]

\* A count-only call of tw_node_children on a node.
IsProbe(c) ==
  c.op = "tw_node_children" /\ c.node # NULL /\ (c.pre = NULL \/ c.cap = 0)

\* uint32_t tw_node_children(const TSNode *node, TSNode *out_nodes, uint32_t out_cap)
\* probed remembers what the call before answered, when that was a count-only
\* call on the same node.
tw_node_children ==
  /\ ~crashed
  /\ \E node \in {NULL} \cup {Ptr(n) : n \in WalkNodes},
        out_nodes \in {NULL, Ptr(StaleNodes)}, out_cap \in 0..BufLen :
     \E f \in {ChildrenBody(node, out_nodes, out_cap)} :
       last' = [NoCall EXCEPT !.op = "tw_node_children", !.node = node,
                  !.pre = out_nodes, !.cap = out_cap, !.post = f.mem,
                  !.ret = f.ret, !.log = f.log,
                  !.probed = IF IsProbe(last) /\ last.node = node
                             THEN last.ret ELSE NULL]
  /\ UNCHANGED <<trees, heap, crashed>>

\* uintptr_t tw_node_type(const TSNode *node)
tw_node_type ==
  /\ ~crashed
  /\ \E node \in {NULL} \cup {Ptr(n) : n \in WalkNodes} :
     \E nullload \in IF node = NULL THEN NullLoad ELSE {"garbage"} :
     \E n \in {IF node = NULL THEN NullNode ELSE Deref(node)} :
       /\ crashed' = (nullload = "crash")
       /\ last' = [NoCall EXCEPT !.op = "tw_node_type", !.node = node,
                     !.log = IF nullload = "crash" THEN <<>>
                             ELSE <<Event("ts_node_type", <<>>)>>,
                     !.wild = (node = NULL /\ nullload = "garbage"),
                     !.ret = IF nullload = "crash" THEN NULL ELSE Ptr(ts_node_type(n)),
                     !.status = IF nullload = "crash" THEN "crashed" ELSE "returned"]
  /\ UNCHANGED <<trees, heap>>

----------------------------------------------------------------------------
(* The system. *)

Init ==
  /\ trees = <<>>
  /\ heap = {}
  /\ last = NoCall
  /\ crashed = FALSE

NextTree ==
  \/ tw_parser_new
  \/ tw_parser_delete
  \/ tw_parser_set_language
  \/ tw_parser_parse_string
  \/ tw_tree_delete
  \/ tw_tree_edit
  \/ tw_tree_changed_ranges

SpecTree == Init /\ [][NextTree]_vars

NextNode ==
  \/ tw_tree_root_node
  \/ tw_node_inspect
  \/ tw_node_children
  \/ tw_node_type

SpecNode == Init /\ [][NextNode]_vars

Next == NextTree \/ NextNode

Spec == Init /\ [][Next]_vars

----------------------------------------------------------------------------
(* Properties. *)

Min(a, b) == IF a < b THEN a ELSE b

Returned(op) == last.op = op /\ last.status = "returned"

\* The indices the call stored to, in the order of the stores.
StoreIndices == [k \in 1..Len(Calls(last.log, "store")) |->
                   Calls(last.log, "store")[k].args[1]]

\* A tw_tree_changed_ranges call that returned after the engine answered
\* with an array.
DiffAnswered ==
  /\ Returned("tw_tree_changed_ranges")
  /\ last.h1 # 0 /\ last.h2 # 0
  /\ last.eng # NULL /\ Deref(last.eng).addr # 0

\* C1: a tw_tree_changed_ranges call on two non-null trees to which the
\* engine answers an array of N ranges returns N whatever the capacity C,
\* and stores exactly at the indices 0..min(N,C)-1, in that order; the
\* buffer then holds in entry i the six values of the engine's range i, and
\* its other entries as they were.
C1_TrueCountAndPrefix ==
  DiffAnswered =>
    LET N == Deref(last.eng).count
        ranges == Deref(last.eng).ranges
        m == Min(N, last.cap)
    IN
    /\ last.ret = Ptr(N)
    /\ StoreIndices = [k \in 1..m |-> k - 1]
    /\ last.pre # NULL =>
         /\ last.post # NULL
         /\ \A i \in 1..m :
              /\ Deref(last.post)[i].start_byte = ranges[i].start_byte
              /\ Deref(last.post)[i].end_byte = ranges[i].end_byte
              /\ Deref(last.post)[i].start_row = ranges[i].start_point.row
              /\ Deref(last.post)[i].start_col = ranges[i].start_point.column
              /\ Deref(last.post)[i].end_row = ranges[i].end_point.row
              /\ Deref(last.post)[i].end_col = ranges[i].end_point.column
         /\ \A i \in (m + 1)..BufLen : Deref(last.post)[i] = Deref(last.pre)[i]

\* A truncated diff: more ranges than a non-zero capacity.
C1_Witness ==
  /\ DiffAnswered
  /\ last.pre # NULL
  /\ last.cap > 0
  /\ Deref(last.eng).count > last.cap
  /\ last.ret = Ptr(Deref(last.eng).count)

\* C4: a tw_tree_changed_ranges call with a null old_tree or new_tree
\* returns 0 with no engine call, no store, no allocation and no free, and
\* leaves the caller's buffer as it was, whatever the buffer and capacity.
C4_NullTreeReturnsZero ==
  (last.op = "tw_tree_changed_ranges" /\ (last.h1 = 0 \/ last.h2 = 0)) =>
    /\ last.status = "returned"
    /\ last.ret = Ptr(0)
    /\ last.log = <<>>
    /\ last.eng = NULL
    /\ last.post = last.pre
    /\ ~last.wild
    /\ heap = {}

\* A diff of a live tree against the null handle, with a buffer to fill.
C4_Witness ==
  /\ Returned("tw_tree_changed_ranges")
  /\ last.h1 # 0 /\ last.h2 = 0
  /\ last.pre # NULL /\ last.cap > 0
  /\ last.ret = Ptr(0)

\* C5: when tw_tree_changed_ranges returns, an array the engine answered
\* with is no longer allocated: the call freed it exactly once, as its last
\* step and so after every store of the copy; an engine answer of NULL is
\* never freed.
C5_RangesReleased ==
  Returned("tw_tree_changed_ranges") =>
    /\ heap = {}
    /\ (last.eng = NULL \/ Deref(last.eng).addr = 0) =>
         Calls(last.log, "free") = <<>>
    /\ (last.eng # NULL /\ Deref(last.eng).addr # 0) =>
         /\ Calls(last.log, "free") = <<Event("free", <<Deref(last.eng).addr>>)>>
         /\ last.log[Len(last.log)].fn = "free"
         /\ last.ret = Ptr(Deref(last.eng).count)

\* A truncated diff whose array was freed after BufLen stores.
C5_Witness ==
  /\ DiffAnswered
  /\ last.pre # NULL
  /\ Deref(last.eng).count > last.cap
  /\ Len(Calls(last.log, "store")) = BufLen
  /\ last.log[Len(last.log)].fn = "free"

\* C6: tw_tree_edit calls the engine's ts_tree_edit once, on the given tree
\* and with the nine values of the caller's descriptor field for field, iff
\* the tree handle is non-zero and the edit pointer non-null; otherwise it
\* calls nothing and leaves every tree as it was.  It never parses and never
\* creates or deletes a tree.
C6_EditTranslated ==
  [][last'.op = "tw_tree_edit" =>
       /\ DOMAIN trees' = DOMAIN trees
       /\ Calls(last'.log, "ts_parser_parse_string") = <<>>
       /\ IF last'.h1 # 0 /\ last'.edit # NULL
            THEN LET e == Deref(last'.edit) IN
                 /\ Len(last'.log) = 1
                 /\ last'.log[1].fn = "ts_tree_edit"
                 /\ last'.log[1].args[1] = last'.h1
                 /\ LET ie == last'.log[1].args[2] IN
                    /\ ie.start_byte = e.start_byte
                    /\ ie.old_end_byte = e.old_end_byte
                    /\ ie.new_end_byte = e.new_end_byte
                    /\ ie.start_point = TSPoint(e.start_row, e.start_col)
                    /\ ie.old_end_point = TSPoint(e.old_end_row, e.old_end_col)
                    /\ ie.new_end_point = TSPoint(e.new_end_row, e.new_end_col)
                    /\ trees' = [trees EXCEPT ![last'.h1] = [edit |-> Ptr(ie)]]
            ELSE /\ last'.log = <<>>
                 /\ trees' = trees
  ]_vars

\* An edit of nine different values reached the engine's tree.
C6_Witness ==
  /\ Returned("tw_tree_edit")
  /\ last.h1 # 0
  /\ last.edit = Ptr(TwInputEdit(1, 2, 3, 4, 5, 6, 7, 8, 9))
  /\ Len(last.log) = 1
  /\ trees[last.h1].edit # NULL

\* A tw_node_children call on a node.
Walked == Returned("tw_node_children") /\ last.node # NULL

\* Bit k (from 0) of a flags word.
Bit(flags, k) == (flags \div (2 ^ k)) % 2 = 1

\* The entries of a sequence of nodes that are named, in their order.
Named(nodes) == SelectSeq(nodes, LAMBDA n : n.is_named)

\* C2: a tw_node_children call on a node of K children with a non-null
\* buffer of capacity C > 0 returns K, also when C < K, and stores exactly at
\* the indices 0..min(K,C)-1; entry i of the buffer is then the engine's
\* child i, and the other entries are as they were.
C2_ChildrenTrueCountAndPrefix ==
  (Walked /\ last.pre # NULL /\ last.cap > 0) =>
    LET n == Deref(last.node)
        K == Len(n.kids)
        m == Min(K, last.cap)
    IN
    /\ last.ret = Ptr(K)
    /\ StoreIndices = [k \in 1..m |-> k - 1]
    /\ \A i \in 1..m : Deref(last.post)[i] = n.kids[i]
    /\ \A i \in (m + 1)..BufLen : Deref(last.post)[i] = Deref(last.pre)[i]

\* A truncated walk: more children than a non-zero capacity.
C2_Witness ==
  /\ Walked
  /\ last.pre # NULL
  /\ last.cap > 0
  /\ Len(Deref(last.node).kids) > last.cap
  /\ last.ret = Ptr(Len(Deref(last.node).kids))

\* C3: a tw_node_children call with a null buffer or with capacity 0 stores
\* nothing and returns the number K of children; a call right after it on
\* the same node with a buffer of capacity K returns K again and leaves the
\* K children in the buffer, in the order of their indices.
C3_ProbeThenFill ==
  /\ (Walked /\ (last.pre = NULL \/ last.cap = 0)) =>
       /\ last.ret = Ptr(Len(Deref(last.node).kids))
       /\ last.post = last.pre
       /\ StoreIndices = <<>>
  /\ (Walked /\ last.probed # NULL /\ last.pre # NULL
        /\ last.cap = Deref(last.probed)) =>
       /\ last.ret = last.probed
       /\ SubSeq(Deref(last.post), 1, last.cap) = Deref(last.node).kids

\* A buffer of the probed size, BufLen, was filled.
C3_Witness ==
  /\ Walked
  /\ last.probed = Ptr(BufLen)
  /\ last.pre # NULL
  /\ last.cap = BufLen
  /\ Deref(last.post) = Deref(last.node).kids

\* C7: tw_node_inspect leaves the output record as it was when the node or
\* the output pointer is null; otherwise the record holds the node's symbol,
\* start byte, end byte and child count, and flags whose bit 0 is set iff
\* the node is named, bit 1 iff it is an error, bit 2 iff it is missing,
\* bit 3 iff it is extra, bit 4 iff it has an error, and no other bit.
C7_InspectPacksFlags ==
  last.op = "tw_node_inspect" =>
    /\ last.status = "returned"
    /\ IF last.node = NULL \/ last.pre = NULL
         THEN last.post = last.pre /\ last.log = <<>>
         ELSE LET n == Deref(last.node)
                  info == Deref(last.post)
              IN
              /\ info.symbol = n.symbol
              /\ info.start_byte = n.start_byte
              /\ info.end_byte = n.end_byte
              /\ info.child_count = Len(n.kids)
              /\ Bit(info.flags, 0) = n.is_named
              /\ Bit(info.flags, 1) = n.is_error
              /\ Bit(info.flags, 2) = n.is_missing
              /\ Bit(info.flags, 3) = n.is_extra
              /\ Bit(info.flags, 4) = n.has_error
              /\ info.flags \in 0..31

\* An anonymous, missing node with an error and children was inspected.
C7_Witness ==
  /\ Returned("tw_node_inspect")
  /\ last.node # NULL /\ last.pre # NULL
  /\ Deref(last.post).flags = TW_NODE_FLAG_MISSING + TW_NODE_FLAG_HAS_ERROR
  /\ Deref(last.post).child_count = MaxKids

EditOnNull == last.op = "tw_tree_edit" /\ (last.h1 = 0 \/ last.edit = NULL)

InspectOnNull == last.op = "tw_node_inspect" /\ (last.node = NULL \/ last.pre = NULL)

\* tw_tree_edit and tw_node_inspect return on a null argument having called
\* and stored nothing.
SilentNoOps ==
  /\ EditOnNull => last.status = "returned" /\ last.log = <<>>
  /\ InspectOnNull =>
       last.status = "returned" /\ last.log = <<>> /\ last.post = last.pre

\* tw_parser_parse_string and tw_tree_root_node hand their arguments to the
\* engine as they are, null or not, before anything else.
PassedStraight ==
  /\ last.op = "tw_parser_parse_string" =>
       /\ last.log # <<>>
       /\ last.log[1] = Event("ts_parser_parse_string",
                              <<last.h1, last.h2, last.pre, last.cap>>)
  /\ last.op = "tw_tree_root_node" =>
       /\ last.log # <<>>
       /\ last.log[1] = Event("ts_tree_root_node", <<last.h1>>)

\* C9, as stated: edits and inspects silently no-op on null arguments;
\* parses and traversals (tw_node_children, tw_tree_root_node) test nothing
\* and reach the engine whatever their arguments.
C9_TraversalsUnguarded ==
  /\ SilentNoOps
  /\ PassedStraight
  /\ last.op = "tw_node_children" =>
       /\ last.log # <<>>
       /\ last.log[1].fn = "ts_node_child_count"

\* C9, amended: edits and inspects silently no-op on null arguments, and so
\* does tw_node_children, which returns 0 on a null node without reaching
\* the engine and only counts on a null buffer; tw_parser_parse_string and
\* tw_tree_root_node test nothing and reach the engine whatever their
\* arguments.
C9_NullPolicy ==
  /\ SilentNoOps
  /\ PassedStraight
  /\ (last.op = "tw_node_children" /\ last.node = NULL) =>
       /\ last.status = "returned"
       /\ last.ret = Ptr(0)
       /\ last.log = <<>>
       /\ last.post = last.pre
  /\ (last.op = "tw_node_children" /\ last.node # NULL /\ last.pre = NULL) =>
       /\ last.status = "returned"
       /\ last.ret = Ptr(Len(Deref(last.node).kids))
       /\ last.log = <<Event("ts_node_child_count", <<>>)>>
       /\ last.post = NULL

\* tw_node_children was called on a null node with a buffer to fill.
C9_Witness ==
  /\ Returned("tw_node_children")
  /\ last.node = NULL
  /\ last.pre # NULL /\ last.cap > 0
  /\ last.ret = Ptr(0)
  /\ last.log = <<>>

\* The total count N of a bounded copy: the engine's count when the call
\* came to ask for it and got one, else 0.
TotalCount ==
  IF last.op = "tw_tree_changed_ranges"
    THEN IF last.eng # NULL /\ Deref(last.eng).addr # 0
           THEN Deref(last.eng).count ELSE 0
    ELSE IF last.node # NULL THEN Len(Deref(last.node).kids) ELSE 0

\* C10: tw_tree_changed_ranges and tw_node_children store only at indices
\* below min(N, C), so never at or beyond the capacity C, and every entry of
\* the caller's buffer from min(N, C) on is as it was before the call.  With
\* capacity 0 they store nothing and load or store nothing through the
\* output pointer, which may then be null: the call returns the count.
C10_BufferFrame ==
  last.op \in {"tw_tree_changed_ranges", "tw_node_children"} =>
    LET m == Min(TotalCount, last.cap) IN
    /\ \A k \in 1..Len(StoreIndices) : StoreIndices[k] < m
    /\ last.pre # NULL =>
         /\ last.post # NULL
         /\ Len(Deref(last.post)) = BufLen
         /\ \A i \in (m + 1)..BufLen : Deref(last.post)[i] = Deref(last.pre)[i]
    /\ last.cap = 0 =>
         /\ last.status = "returned"
         /\ ~last.wild
         /\ StoreIndices = <<>>
         /\ last.post = last.pre
         /\ last.ret = Ptr(TotalCount)

\* A diff of MaxRanges ranges probed with a null buffer of capacity 0.
C10_Witness ==
  /\ DiffAnswered
  /\ last.pre = NULL
  /\ last.cap = 0
  /\ last.ret = Ptr(MaxRanges)
  /\ ~last.wild

====
